---------------------------- MODULE Spec2Model ----------------------------
(***************************************************************************)
(* The HR candidate-evaluation workflow of src/supervisor: a LangGraph     *)
(* state graph in which a supervisor node (a structured-output call to    *)
(* the language model) routes between five step nodes, each of which      *)
(* returns a partial update that is merged into the shared state.         *)
(*                                                                         *)
(* The language model, the PDF files and the web are the environment:     *)
(* every outcome they can produce is a nondeterministic choice.           *)
(***************************************************************************)
EXTENDS Integers, Sequences, FiniteSets, TLC

(***************************************************************************)
(* Bounds of the model.                                                    *)
(***************************************************************************)
\* Longest candidate list of a whole run.
MaxRunCand == 1
\* Longest candidate list a single step is applied to.
MaxCand == 2
\* Supersteps graph.invoke runs before it raises GraphRecursionError
\* (LangGraph's default is 25; 11 is the least that lets all five steps run).
RecursionLimit == 11
\* Longest model response to the structured-ranking prompt, in tokens.
MaxTokens == 3

(***************************************************************************)
(* supervisor.py: the team and the router's answer type.                   *)
(***************************************************************************)
members ==
  <<"ResumeAnalyzer", "LinkedInAnalyzer", "CoverLetterAnalyzer", "JobMatcher", "FinalRanker">>

Members == {members[i] : i \in 1..Len(members)}

options == <<"FINISH">> \o members

\* RouteResponse.next: Literal[*options]
RouteResponse == {options[i] : i \in 1..Len(options)}

(***************************************************************************)
(* Python values.                                                          *)
(***************************************************************************)
\* dict.get(key) of a missing key
None == "<None>"

\* {} : the empty dict
EmptyDict == <<>>

\* d.get(k, default)
Get(d, k, default) == IF k \in DOMAIN d THEN d[k] ELSE default

\* d[k] = v
Put(d, k, v) == [x \in (DOMAIN d) \cup {k} |-> IF x = k THEN v ELSE d[x]]

\* `not s` for a str-or-None
Falsy(s) == s = None \/ s = ""

\* s.startswith(p)
StartsWith(s, p) == Len(s) >= Len(p) /\ SubSeq(s, 1, Len(p)) = p

\* not s.strip() : s holds white space only
IsBlank(s) == \A i \in 1..Len(s) : SubSeq(s, i, i) \in {" ", "\n", "\t"}

(***************************************************************************)
(* The environment: files, the web, the model client.                      *)
(***************************************************************************)
\* The files on disk, by path; a path not listed names no file. A file is a
\* PDF that PdfReader opens or not; each of its pages yields text, white
\* space, or fails in extract_text.
PageFails == "<extract_text raises>"

FileSystem ==
  ("ok.pdf"      :> [readable |-> TRUE,  pages |-> <<"Python developer", "Django">>]) @@
  ("partial.pdf" :> [readable |-> TRUE,  pages |-> <<"Python developer", PageFails>>]) @@
  ("blank.pdf"   :> [readable |-> TRUE,  pages |-> <<" ">>]) @@
  ("corrupt.pdf" :> [readable |-> FALSE, pages |-> <<>>])

\* What loader.load() can do for a URL: raise, or return documents.
WebReplies ==
  { [raises |-> TRUE,  docs |-> <<>>],
    [raises |-> FALSE, docs |-> <<>>],
    [raises |-> FALSE, docs |-> <<"">>],
    [raises |-> FALSE, docs |-> <<"Senior engineer">>] }

WebFailure == "connection refused"

\* What llm.invoke(prompt) can do: return text, or raise.
LLMReplies(available) == IF available THEN {"ok", "raise"} ELSE {"raise"}

LLMFailure == "model call failed"

AnalysisText == "analysis"

\* The AIMessage object llm.invoke returns for the content: an object, not
\* a str, written here as a text of its own so that it can be told from its
\* content.
AIMessage(content) == "AIMessage(content='" \o content \o "')"

\* str(message) for the AIMessage of that content: the fields of the
\* message, the content first and in quotes.
MessageOpen == "content='"

MessageClose == "' additional_kwargs={} response_metadata={}"

str_message(content) == MessageOpen \o content \o MessageClose

(***************************************************************************)
(* tools/pdf_parser.py                                                     *)
(***************************************************************************)
\* sep.join(parts)
RECURSIVE Join(_, _)
Join(sep, parts) ==
  IF parts = <<>> THEN ""
  ELSE IF Len(parts) = 1 THEN parts[1]
  ELSE parts[1] \o sep \o Join(sep, Tail(parts))

\* The pages whose text is kept: extract_text returned and is not blank.
RECURSIVE text_content(_)
text_content(pages) ==
  IF pages = <<>> THEN <<>>
  ELSE IF pages[1] = PageFails \/ IsBlank(pages[1]) THEN text_content(Tail(pages))
  ELSE <<pages[1]>> \o text_content(Tail(pages))

\* parse_pdf(file_path) on the file system fs: the text returned, or the
\* exception raised (its type in raised, str(e) in value).
parse_pdf_on(fs, file_path) ==
  IF file_path \notin DOMAIN fs
    THEN [raised |-> "FileNotFoundError", value |-> "PDF file not found: " \o file_path]
  ELSE IF ~fs[file_path].readable
    THEN [raised |-> "Exception", value |-> "Error parsing PDF: " \o "EOF marker not found"]
  ELSE LET full_text == Join("\n\n", text_content(fs[file_path].pages))
       IN  [raised |-> "", value |-> IF IsBlank(full_text) THEN "" ELSE full_text]

parse_pdf(file_path) == parse_pdf_on(FileSystem, file_path)

(***************************************************************************)
(* tools/linkedin_scraper.py                                               *)
(***************************************************************************)
\* bool(parsed.scheme and parsed.netloc) for urlparse(url_or_text)
is_url(url_or_text) ==
  \E scheme \in {"http://", "https://"} :
    StartsWith(url_or_text, scheme) /\ Len(url_or_text) > Len(scheme)

\* A scraper that answers a failed fetch with no text at all.
scrape_linkedin_silent(url_or_text, web) ==
  IF ~is_url(url_or_text) THEN url_or_text
  ELSE IF web.raises \/ web.docs = <<>> THEN ""
  ELSE Join("\n\n", web.docs)

\* scrape_linkedin(url_or_text) when the web answers with `web`
scrape_linkedin(url_or_text, web) ==
  IF ~is_url(url_or_text) THEN url_or_text
  ELSE IF web.raises THEN "Error accessing LinkedIn profile: " \o WebFailure
  ELSE IF web.docs = <<>> THEN ""
  ELSE Join("\n\n", web.docs)

(***************************************************************************)
(* The per-candidate bodies of the four analysis steps. Each gives the     *)
(* entry stored for the candidate, whether the model was invoked, and      *)
(* whether an extractor or the model raised while the candidate was        *)
(* processed.                                                              *)
(***************************************************************************)
\* candidate.get("id", f"candidate_{idx}"), idx counted from 0
CandidateId(candidates, i) ==
  Get(candidates[i], "id", "candidate_" \o ToString(i - 1))

\* A resume step that stores one text for every resume it could not read.
ResumeEntryOneSentinel(candidate, llm) ==
  LET resume_path == Get(candidate, "resume_path", None) IN
  IF Falsy(resume_path)
    THEN [entry |-> "No resume provided", called |-> FALSE, failed |-> FALSE, extracted |-> FALSE,
          text |-> None]
  ELSE LET resume_text == parse_pdf(resume_path) IN
       IF resume_text.raised # ""
         THEN [entry |-> "No resume provided",
               called |-> FALSE, failed |-> TRUE, extracted |-> TRUE,
               text |-> None]
       ELSE IF llm = "raise"
         THEN [entry |-> "Error analyzing resume: " \o LLMFailure,
               called |-> TRUE, failed |-> TRUE, extracted |-> TRUE,
               text |-> resume_text.value]
       ELSE [entry |-> AIMessage(AnalysisText), called |-> TRUE, failed |-> FALSE, extracted |-> TRUE,
               text |-> resume_text.value]

\* agents/resume_analyzer.py, the loop body
ResumeEntry(candidate, llm) ==
  LET resume_path == Get(candidate, "resume_path", None) IN
  IF Falsy(resume_path)
    THEN [entry |-> "No resume provided", called |-> FALSE, failed |-> FALSE, extracted |-> FALSE,
          text |-> None]
  ELSE LET resume_text == parse_pdf(resume_path) IN
       IF resume_text.raised # ""
         THEN [entry |-> "Error analyzing resume: " \o resume_text.value,
               called |-> FALSE, failed |-> TRUE, extracted |-> TRUE,
               text |-> None]
       ELSE IF llm = "raise"
         THEN [entry |-> "Error analyzing resume: " \o LLMFailure,
               called |-> TRUE, failed |-> TRUE, extracted |-> TRUE,
               text |-> resume_text.value]
       ELSE [entry |-> AIMessage(AnalysisText), called |-> TRUE, failed |-> FALSE, extracted |-> TRUE,
               text |-> resume_text.value]

\* A LinkedIn step that skips the model for empty text only: text that
\* begins with Error is analysed like any other.
LinkedInEntryEmptyCheckOnly(candidate, llm, web) ==
  LET linkedin_url == Get(candidate, "linkedin_url", None) IN
  IF Falsy(linkedin_url)
    THEN [entry |-> "No LinkedIn profile provided", called |-> FALSE, failed |-> FALSE, extracted |-> FALSE,
          text |-> None]
  ELSE LET linkedin_text == scrape_linkedin(linkedin_url, web) IN
       IF linkedin_text = ""
         THEN [entry |-> "No content available",
               called |-> FALSE, failed |-> FALSE, extracted |-> TRUE,
               text |-> linkedin_text]
       ELSE IF llm = "raise"
         THEN [entry |-> "Error analyzing LinkedIn: " \o LLMFailure,
               called |-> TRUE, failed |-> TRUE, extracted |-> TRUE,
               text |-> linkedin_text]
       ELSE [entry |-> AIMessage(AnalysisText), called |-> TRUE, failed |-> FALSE, extracted |-> TRUE,
               text |-> linkedin_text]

\* agents/linkedin_analyzer.py, the loop body
LinkedInEntry(candidate, llm, web) ==
  LET linkedin_url == Get(candidate, "linkedin_url", None) IN
  IF Falsy(linkedin_url)
    THEN [entry |-> "No LinkedIn profile provided", called |-> FALSE, failed |-> FALSE, extracted |-> FALSE,
          text |-> None]
  ELSE LET linkedin_text == scrape_linkedin(linkedin_url, web) IN
       IF linkedin_text = "" \/ StartsWith(linkedin_text, "Error")
         THEN [entry |-> IF linkedin_text = "" THEN "No content available" ELSE linkedin_text,
               called |-> FALSE, failed |-> is_url(linkedin_url) /\ web.raises, extracted |-> TRUE,
               text |-> linkedin_text]
       ELSE IF llm = "raise"
         THEN [entry |-> "Error analyzing LinkedIn: " \o LLMFailure,
               called |-> TRUE, failed |-> TRUE, extracted |-> TRUE,
               text |-> linkedin_text]
       ELSE [entry |-> AIMessage(AnalysisText), called |-> TRUE, failed |-> FALSE, extracted |-> TRUE,
               text |-> linkedin_text]

\* A cover letter step for which the letter is required: an absent path is
\* handed to the extractor like any other.
CoverLetterEntryRequired(candidate, llm) ==
  LET cover_letter_path == Get(candidate, "cover_letter_path", None)
      cover_letter_text == parse_pdf(cover_letter_path)
  IN  IF cover_letter_text.raised = "FileNotFoundError"
        THEN [entry |-> "Cover letter file not found",
              called |-> FALSE, failed |-> TRUE, extracted |-> TRUE,
               text |-> None]
      ELSE IF cover_letter_text.raised # ""
        THEN [entry |-> "Error analyzing cover letter: " \o cover_letter_text.value,
              called |-> FALSE, failed |-> TRUE, extracted |-> TRUE,
               text |-> None]
      ELSE IF IsBlank(cover_letter_text.value)
        THEN [entry |-> "Cover letter file is empty",
              called |-> FALSE, failed |-> FALSE, extracted |-> TRUE,
               text |-> cover_letter_text.value]
      ELSE IF llm = "raise"
        THEN [entry |-> "Error analyzing cover letter: " \o LLMFailure,
              called |-> TRUE, failed |-> TRUE, extracted |-> TRUE,
               text |-> cover_letter_text.value]
      ELSE [entry |-> AIMessage(AnalysisText), called |-> TRUE, failed |-> FALSE, extracted |-> TRUE,
               text |-> cover_letter_text.value]

\* agents/cover_letter_analyzer.py, the loop body
CoverLetterEntry(candidate, llm) ==
  LET cover_letter_path == Get(candidate, "cover_letter_path", None) IN
  IF Falsy(cover_letter_path)
    THEN [entry |-> "No cover letter provided (optional)", called |-> FALSE, failed |-> FALSE, extracted |-> FALSE,
          text |-> None]
  ELSE LET cover_letter_text == parse_pdf(cover_letter_path) IN
       IF cover_letter_text.raised = "FileNotFoundError"
         THEN [entry |-> "Cover letter file not found",
               called |-> FALSE, failed |-> TRUE, extracted |-> TRUE,
               text |-> None]
       ELSE IF cover_letter_text.raised # ""
         THEN [entry |-> "Error analyzing cover letter: " \o cover_letter_text.value,
               called |-> FALSE, failed |-> TRUE, extracted |-> TRUE,
               text |-> None]
       ELSE IF IsBlank(cover_letter_text.value)
         THEN [entry |-> "Cover letter file is empty", called |-> FALSE, failed |-> FALSE, extracted |-> TRUE,
               text |-> cover_letter_text.value]
       ELSE IF llm = "raise"
         THEN [entry |-> "Error analyzing cover letter: " \o LLMFailure,
               called |-> TRUE, failed |-> TRUE, extracted |-> TRUE,
               text |-> cover_letter_text.value]
       ELSE [entry |-> AIMessage(AnalysisText), called |-> TRUE, failed |-> FALSE, extracted |-> TRUE,
               text |-> cover_letter_text.value]

\* agents/job_matcher.py, the loop body
JobMatchEntry(candidate, llm) ==
  IF llm = "raise"
    THEN [entry |-> "Error in job matching: " \o LLMFailure,
          called |-> TRUE, failed |-> TRUE, extracted |-> FALSE,
          text |-> None]
  ELSE [entry |-> AnalysisText, called |-> TRUE, failed |-> FALSE, extracted |-> FALSE,
          text |-> None]

\* The loop's assignments analyses[candidate_id] = entry, in list order: a
\* later candidate with the same id overwrites the earlier one.
RECURSIVE CollectFrom(_, _, _, _)
CollectFrom(candidates, results, i, analyses) ==
  IF i > Len(candidates) THEN analyses
  ELSE CollectFrom(candidates, results, i + 1,
                   Put(analyses, CandidateId(candidates, i), results[i].entry))

\* A loop that an exception leaves: nothing is stored from the first
\* failing candidate on.
CollectUntilFailure(candidates, results) ==
  LET failing == {i \in 1..Len(candidates) : results[i].failed}
      last == IF failing = {} THEN Len(candidates)
              ELSE (CHOOSE i \in failing : \A j \in failing : i <= j) - 1
  IN  CollectFrom(SubSeq(candidates, 1, last), results, 1, EmptyDict)

\* A loop that assigns with setdefault: the entry of the first candidate
\* with an id is kept.
CollectKeepingFirst(candidates, results) ==
  LET ids == {CandidateId(candidates, i) : i \in 1..Len(candidates)}
      first(id) == CHOOSE i \in 1..Len(candidates) :
                     /\ CandidateId(candidates, i) = id
                     /\ \A j \in 1..(i - 1) : CandidateId(candidates, j) # id
  IN  [id \in ids |-> results[first(id)].entry]

Collect(candidates, results) == CollectFrom(candidates, results, 1, EmptyDict)

\* What happened to each candidate of one pass, in list order: whether the
\* extractor and the model were invoked, the text the extractor returned
\* (None when it was not invoked or raised), what the model did, whether
\* anything raised, and the entry the loop body assigned.
Pass(results, llm) ==
  [i \in 1..Len(results) |->
     [entry |-> results[i].entry,
      extracted |-> results[i].extracted,
      called |-> results[i].called,
      failed |-> results[i].failed,
      reply  |-> IF results[i].called THEN llm[i] ELSE "none",
      text   |-> results[i].text]]

(***************************************************************************)
(* The four analysis steps: the partial update each returns (and, in       *)
(* pass, what happened to each candidate).                                 *)
(***************************************************************************)
\* agents/resume_analyzer.py
analyze_resume(candidates, llm) ==
  LET results == [i \in 1..Len(candidates) |-> ResumeEntry(candidates[i], llm[i])]
  IN  [messages |-> <<"ResumeAnalyzer">>,
       resume_analyses |-> Collect(candidates, results),
       pass |-> Pass(results, llm)]

\* agents/linkedin_analyzer.py
analyze_linkedin(candidates, llm, web) ==
  LET results == [i \in 1..Len(candidates) |-> LinkedInEntry(candidates[i], llm[i], web[i])]
  IN  [messages |-> <<"LinkedInAnalyzer">>,
       linkedin_analyses |-> Collect(candidates, results),
       pass |-> Pass(results, llm)]

\* agents/cover_letter_analyzer.py
analyze_cover_letter(candidates, llm) ==
  LET results == [i \in 1..Len(candidates) |-> CoverLetterEntry(candidates[i], llm[i])]
  IN  [messages |-> <<"CoverLetterAnalyzer">>,
       cover_letter_analyses |-> Collect(candidates, results),
       pass |-> Pass(results, llm)]

\* agents/job_matcher.py
match_candidates(candidates, llm) ==
  LET results == [i \in 1..Len(candidates) |-> JobMatchEntry(candidates[i], llm[i])]
  IN  [messages |-> <<"JobMatcher">>,
       job_matches |-> Collect(candidates, results),
       pass |-> Pass(results, llm)]

(***************************************************************************)
(* agents/final_ranker.py                                                  *)
(*                                                                         *)
(* The text of the model's reply to the structured-ranking prompt is a     *)
(* sequence of tokens: the two fence markers, white space, and pieces of   *)
(* text, some of which are JSON documents.                                 *)
(***************************************************************************)
\* The marker of three backquotes followed by json
FenceJson == "<fence>json"

\* The marker of three backquotes
Fence == "<fence>"

RankingText == "{\"rankings\": [], \"top_recommendation\": \"a\", \"summary\": \"ok\"}"

ObjectText == "{\"note\": \"n/a\"}"

ArrayText == "[1]"

ProseText == "Here is the ranking"

Newline == "\n"

Space == " "

Tokens == {FenceJson, Fence, RankingText, ObjectText, ArrayText, ProseText, Newline}

\* The replies that hold one JSON document in a fenced block, the fences on
\* lines of their own or set off by spaces.
FencedReplies ==
  {<<FenceJson, sep, doc, sep, Fence>> :
     sep \in {Newline, Space}, doc \in {RankingText, ObjectText, ArrayText}}

\* What llm.invoke(json_prompt) can do: raise, or return a message with a
\* content.
JsonReplies ==
  {[raises |-> TRUE, text |-> <<>>]} \cup
  {[raises |-> FALSE, text |-> t] :
     t \in UNION {[1..n -> Tokens] : n \in 0..MaxTokens} \cup FencedReplies}

ReportText == "report"

\* repr of a piece of content: a line break is written as backslash and n.
EscapedNewline == "\\n"

repr_token(t) == IF t = Newline THEN EscapedNewline ELSE t

\* final_ranker.py line 105: str(json_response) for the message whose
\* content is text
str_reply(text) ==
  <<MessageOpen>> \o [i \in 1..Len(text) |-> repr_token(text[i])] \o <<MessageClose>>

\* .strip(): text without the white space at its two ends
RECURSIVE strip(_)
strip(text) ==
  IF text = <<>> THEN text
  ELSE IF text[1] \in {Space, Newline} THEN strip(Tail(text))
  ELSE IF text[Len(text)] \in {Space, Newline} THEN strip(SubSeq(text, 1, Len(text) - 1))
  ELSE text

\* The index of the first token of text that is in marks, 0 when none is.
RECURSIVE FirstOf(_, _, _)
FirstOf(text, marks, i) ==
  IF i > Len(text) THEN 0
  ELSE IF text[i] \in marks THEN i
  ELSE FirstOf(text, marks, i + 1)

\* text from its start up to the first fence marker of either kind (the
\* longer marker begins with the shorter one): .split(Fence)[0]
UpToFence(text) ==
  LET k == FirstOf(text, {Fence, FenceJson}, 1)
  IN  IF k = 0 THEN text ELSE SubSeq(text, 1, k - 1)

\* final_ranker.py lines 105-109: the text handed to json.loads
StripFences(json_str) ==
  IF FirstOf(json_str, {FenceJson}, 1) # 0
    THEN strip(UpToFence(SubSeq(json_str, FirstOf(json_str, {FenceJson}, 1) + 1, Len(json_str))))
  ELSE IF FirstOf(json_str, {Fence}, 1) # 0
    THEN strip(UpToFence(SubSeq(json_str, FirstOf(json_str, {Fence}, 1) + 1, Len(json_str))))
  ELSE json_str

\* json.loads: the value of a text that is one JSON document, and
\* JSONDecodeError for any other text (none, prose, or extra data).
json_loads(text) ==
  IF Len(text) = 1 /\ text[1] = RankingText
    THEN [error |-> FALSE, type |-> "dict",
          value |-> [rankings |-> <<>>, top_recommendation |-> "a", summary |-> "ok"]]
  ELSE IF Len(text) = 1 /\ text[1] = ObjectText
    THEN [error |-> FALSE, type |-> "dict", value |-> [note |-> "n/a"]]
  ELSE IF Len(text) = 1 /\ text[1] = ArrayText
    THEN [error |-> FALSE, type |-> "list", value |-> <<1>>]
  ELSE [error |-> TRUE, type |-> "JSONDecodeError", value |-> EmptyDict]

\* A fallback that ranks by the loop index itself.
FallbackRankedFromZero(candidates) ==
  [rankings |->
     [i \in 1..Len(candidates) |->
        [candidate_id |-> CandidateId(candidates, i),
         rank |-> i - 1,
         score |-> 0,
         recommendation |-> "Unable to parse",
         key_strengths |-> <<>>,
         key_weaknesses |-> <<>>]],
   top_recommendation |->
     IF candidates # <<>> THEN Get(candidates[1], "id", "candidate_0") ELSE None,
   summary |-> "Error parsing structured output"]

\* final_ranker.py lines 115-129: the fallback structure
Fallback(candidates) ==
  [rankings |->
     [i \in 1..Len(candidates) |->
        [candidate_id |-> CandidateId(candidates, i),
         rank |-> (i - 1) + 1,
         score |-> 0,
         recommendation |-> "Unable to parse",
         key_strengths |-> <<>>,
         key_weaknesses |-> <<>>]],
   top_recommendation |->
     IF candidates # <<>> THEN Get(candidates[1], "id", "candidate_0") ELSE None,
   summary |-> "Error parsing structured output"]

\* An except clause that stores the report of the error alone.
error_ranking_without_output(e) ==
  [messages |-> <<"FinalRanker">>,
   final_ranking |-> [detailed_report |-> "Error generating ranking: " \o e]]

\* final_ranker.py lines 146-156: the except clause of the whole step
error_ranking(e) ==
  [messages |-> <<"FinalRanker">>,
   final_ranking |-> [detailed_report |-> "Error generating ranking: " \o e,
                      structured_output |-> [error |-> e]]]

\* A final ranker that treats JSON that is not an object like text it could
\* not parse.
rank_candidates_falling_back(candidates, report, reply) ==
  IF report = "raise" \/ reply.raises THEN error_ranking(LLMFailure)
  ELSE LET parsed == json_loads(StripFences(str_reply(reply.text)))
       IN  [messages |-> <<"FinalRanker">>,
            final_ranking |->
              [detailed_report |-> str_message(ReportText),
               structured_output |->
                 IF parsed.error \/ parsed.type # "dict" THEN Fallback(candidates)
                 ELSE parsed.value]]

\* rank_candidates when the model answers the report prompt with `report`
\* ("ok" or "raise") and the structured-ranking prompt with `reply`
rank_candidates(candidates, report, reply) ==
  IF report = "raise" \/ reply.raises THEN error_ranking(LLMFailure)
  ELSE LET parsed == json_loads(StripFences(str_reply(reply.text)))
           structured_output == IF parsed.error THEN Fallback(candidates) ELSE parsed.value
       IN  IF ~parsed.error /\ parsed.type # "dict"
             THEN error_ranking(parsed.type \o " object has no attribute get")
           ELSE [messages |-> <<"FinalRanker">>,
                 final_ranking |-> [detailed_report |-> str_message(ReportText),
                                    structured_output |-> structured_output]]

(***************************************************************************)
(* The state: the fields of CandidateState (state.py), the node the graph  *)
(* is about to run, the value evaluate_candidates returned, and the        *)
(* environment: whether the model client is reachable at all, and what    *)
(* the step node that ran last met (per candidate for an analysis step,    *)
(* per model call for the final ranker).                                   *)
(***************************************************************************)
VARIABLES messages, job_offer, candidates, resume_analyses, linkedin_analyses,
          cover_letter_analyses, job_matches, final_ranking, next,
          pc, result, llm_available, trace

state == <<messages, job_offer, candidates, resume_analyses, linkedin_analyses,
           cover_letter_analyses, job_matches, final_ranking, next>>

vars == <<state, pc, result, llm_available, trace>>

\* A candidate dict (main.py, the docstring of evaluate_candidates) with the
\* keys whose value is not None.
Candidate(id, resume_path, linkedin_url, cover_letter_path) ==
  LET all == [id |-> id, resume_path |-> resume_path,
              linkedin_url |-> linkedin_url, cover_letter_path |-> cover_letter_path]
  IN  [k \in {f \in DOMAIN all : all[f] # None} |-> all[k]]

ProfileUrl == "https://linkedin.com/in/a"

\* The documents a candidate comes with: resume, LinkedIn reference, cover
\* letter. All three good; a resume only; nothing; files that do not exist
\* and a profile given as text; files that cannot be read and a profile text
\* that begins with Error; blank files and an empty reference; files with
\* a page that cannot be read.
Documents ==
  { <<"ok.pdf", ProfileUrl, "ok.pdf">>,
    <<"ok.pdf", None, None>>,
    <<None, None, None>>,
    <<"missing.pdf", "Senior engineer", "missing.pdf">>,
    <<"corrupt.pdf", "Error-prone engineer", "corrupt.pdf">>,
    <<"blank.pdf", "", "blank.pdf">>,
    <<"partial.pdf", None, "partial.pdf">> }

\* The candidates the step functions are applied to: an id, one that equals
\* a positional placeholder, or none.
CandidatePool ==
  {Candidate(id, d[1], d[2], d[3]) : id \in {"a", "candidate_1", None}, d \in Documents}

\* The candidates of the whole runs.
RunPool ==
  { Candidate("a", "ok.pdf", ProfileUrl, "ok.pdf"),
    Candidate("candidate_1", "ok.pdf", None, None),
    Candidate(None, "missing.pdf", "Error-prone engineer", "blank.pdf") }

Lists(pool, n) == UNION {[1..k -> pool] : k \in 0..n}

\* main.py lines 69-87: the initial state, its field next holding nxt
initial_state(cands, nxt) ==
  /\ messages = <<"user">>
  /\ job_offer = "Senior Python Developer"
  /\ candidates = cands
  /\ resume_analyses = EmptyDict
  /\ linkedin_analyses = EmptyDict
  /\ cover_letter_analyses = EmptyDict
  /\ job_matches = EmptyDict
  /\ final_ranking = EmptyDict
  /\ next = nxt

Init ==
  /\ \E cands \in Lists(RunPool, MaxRunCand) : initial_state(cands, "")
  /\ pc = "supervisor"
  /\ result = EmptyDict
  /\ llm_available \in BOOLEAN
  /\ trace = <<>>

\* The names of the messages: the completion markers the router is shown.
Markers(msgs) == {msgs[i] : i \in 1..Len(msgs)} \cap Members

\* The supersteps graph.invoke has run: one per node executed.
Supersteps == 2 * (Len(messages) - 1) + (IF pc = "supervisor" THEN 0 ELSE 1)

\* The node that runs after the current one when the graph's edge names
\* `node`: graph.invoke raises GraphRecursionError, which main.py lines
\* 125-127 pass on, when RecursionLimit supersteps have run and a node is due.
Due(node) == IF Supersteps + 1 >= RecursionLimit THEN "raised" ELSE node

\* A graph in which the resume step also leads straight to the LinkedIn step.
edges_with_shortcut ==
  {<<"START", "supervisor">>, <<"ResumeAnalyzer", "LinkedInAnalyzer">>}
    \cup {<<member, "supervisor">> : member \in Members}

\* graph.py lines 38-40 and 57: the edges of the graph
edges == {<<"START", "supervisor">>} \cup {<<member, "supervisor">> : member \in Members}

\* graph.py lines 43-54: where the conditional edge of the supervisor leads
\* for each value of state["next"]
path_map == [o \in RouteResponse |-> IF o = "FINISH" THEN "END" ELSE o]

\* The nodes the graph schedules once `node` has run and the state's next
\* is nxt.
Targets(node, nxt) ==
  IF node = "supervisor" THEN {path_map[nxt]}
  ELSE {e[2] : e \in {f \in edges : f[1] = node}}

\* One reply of the model per candidate.
Replies == [1..Len(candidates) -> LLMReplies(llm_available)]

(***************************************************************************)
(* main.py lines 106-123: evaluate_candidates builds its result from the   *)
(* final state of the graph.                                               *)
(***************************************************************************)
\* A result built from the fields of the ranking without defaults.
evaluate_result_without_defaults(ranking) ==
  [detailed_report |-> Get(ranking, "detailed_report", None),
   structured_output |-> Get(ranking, "structured_output", None),
   all_analyses |-> [resume_analyses |-> resume_analyses,
                     linkedin_analyses |-> linkedin_analyses,
                     cover_letter_analyses |-> cover_letter_analyses,
                     job_matches |-> job_matches]]

evaluate_result(ranking) ==
  [detailed_report |-> Get(ranking, "detailed_report", "No report generated"),
   structured_output |-> Get(ranking, "structured_output", EmptyDict),
   all_analyses |-> [resume_analyses |-> resume_analyses,
                     linkedin_analyses |-> linkedin_analyses,
                     cover_letter_analyses |-> cover_letter_analyses,
                     job_matches |-> job_matches]]

(***************************************************************************)
(* supervisor.py, supervisor_agent, and the conditional edge of graph.py:  *)
(* the model's structured answer names the next node; FINISH ends the      *)
(* graph, and evaluate_candidates returns.                                 *)
(***************************************************************************)
\* The updates supervisor_agent can return: the model's answer, whatever
\* the messages are.
supervisor_agent(msgs) == {[next |-> o] : o \in RouteResponse}

SupervisorRoutes ==
  /\ pc = "supervisor"
  /\ llm_available
  /\ \E update \in supervisor_agent(messages) :
       /\ next' = update.next
       /\ \E node \in Targets("supervisor", update.next) :
            /\ pc' = IF node = "END" THEN "returned" ELSE Due(node)
            /\ result' = IF node = "END" THEN evaluate_result(final_ranking)
                         ELSE result
  /\ UNCHANGED <<messages, job_offer, candidates, resume_analyses, linkedin_analyses,
                 cover_letter_analyses, job_matches, final_ranking,
                 llm_available, trace>>

\* supervisor_chain.invoke raises: nothing catches it before main.py line
\* 125, which passes it on.
SupervisorRaises ==
  /\ pc = "supervisor"
  /\ pc' = "raised"
  /\ UNCHANGED <<state, result, llm_available, trace>>

(***************************************************************************)
(* The step nodes: each runs its function and the graph merges the update  *)
(* (state.py: messages by operator.add, every other field by assignment),  *)
(* then follows the edge back to the supervisor (graph.py lines 38-40).    *)
(***************************************************************************)
AnalyzeResume ==
  /\ pc = "ResumeAnalyzer"
  /\ \E llm \in Replies :
       LET update == analyze_resume(candidates, llm) IN
       /\ messages' = messages \o update.messages
       /\ resume_analyses' = update.resume_analyses
       /\ trace' = update.pass
  /\ \E node \in Targets(pc, next) : pc' = Due(node)
  /\ UNCHANGED <<job_offer, candidates, linkedin_analyses, cover_letter_analyses,
                 job_matches, final_ranking, next, result, llm_available>>

\* A LinkedIn step whose update also carries an empty final_ranking.
AnalyzeLinkedInResetting ==
  /\ pc = "LinkedInAnalyzer"
  /\ \E llm \in Replies, web \in [1..Len(candidates) -> WebReplies] :
       LET update == analyze_linkedin(candidates, llm, web) IN
       /\ messages' = messages \o update.messages
       /\ linkedin_analyses' = update.linkedin_analyses
       /\ trace' = update.pass
  /\ final_ranking' = EmptyDict
  /\ \E node \in Targets(pc, next) : pc' = Due(node)
  /\ UNCHANGED <<job_offer, candidates, resume_analyses, cover_letter_analyses,
                 job_matches, next, result, llm_available>>

AnalyzeLinkedIn ==
  /\ pc = "LinkedInAnalyzer"
  /\ \E llm \in Replies, web \in [1..Len(candidates) -> WebReplies] :
       LET update == analyze_linkedin(candidates, llm, web) IN
       /\ messages' = messages \o update.messages
       /\ linkedin_analyses' = update.linkedin_analyses
       /\ trace' = update.pass
  /\ \E node \in Targets(pc, next) : pc' = Due(node)
  /\ UNCHANGED <<job_offer, candidates, resume_analyses, cover_letter_analyses,
                 job_matches, final_ranking, next, result, llm_available>>

AnalyzeCoverLetter ==
  /\ pc = "CoverLetterAnalyzer"
  /\ \E llm \in Replies :
       LET update == analyze_cover_letter(candidates, llm) IN
       /\ messages' = messages \o update.messages
       /\ cover_letter_analyses' = update.cover_letter_analyses
       /\ trace' = update.pass
  /\ \E node \in Targets(pc, next) : pc' = Due(node)
  /\ UNCHANGED <<job_offer, candidates, resume_analyses, linkedin_analyses,
                 job_matches, final_ranking, next, result, llm_available>>

\* A job match step merged into a state whose messages have no reducer: the
\* update's list takes the place of the history.
MatchCandidatesReplacing ==
  /\ pc = "JobMatcher"
  /\ \E llm \in Replies :
       LET update == match_candidates(candidates, llm) IN
       /\ messages' = update.messages
       /\ job_matches' = update.job_matches
       /\ trace' = update.pass
  /\ \E node \in Targets(pc, next) : pc' = Due(node)
  /\ UNCHANGED <<job_offer, candidates, resume_analyses, linkedin_analyses,
                 cover_letter_analyses, final_ranking, next, result, llm_available>>

MatchCandidates ==
  /\ pc = "JobMatcher"
  /\ \E llm \in Replies :
       LET update == match_candidates(candidates, llm) IN
       /\ messages' = messages \o update.messages
       /\ job_matches' = update.job_matches
       /\ trace' = update.pass
  /\ \E node \in Targets(pc, next) : pc' = Due(node)
  /\ UNCHANGED <<job_offer, candidates, resume_analyses, linkedin_analyses,
                 cover_letter_analyses, final_ranking, next, result, llm_available>>

\* The replies of the model to the two prompts of rank_candidates, the
\* second drawn from json_replies.
RankReplies(json_replies) ==
  IF llm_available
    THEN {[report |-> "raise", json |-> [raises |-> TRUE, text |-> <<>>]]} \cup
         {[report |-> "ok", json |-> r] : r \in json_replies}
  ELSE {[report |-> "raise", json |-> [raises |-> TRUE, text |-> <<>>]]}

\* In a whole run the structured-ranking reply is one of: an exception, a
\* ranking fenced on one line, a ranking fenced on lines of its own, a bare
\* ranking, another object fenced, an array fenced.
RunJsonReplies ==
  { [raises |-> TRUE,  text |-> <<>>],
    [raises |-> FALSE, text |-> <<FenceJson, RankingText, Fence>>],
    [raises |-> FALSE, text |-> <<FenceJson, Newline, RankingText, Newline, Fence>>],
    [raises |-> FALSE, text |-> <<RankingText>>],
    [raises |-> FALSE, text |-> <<FenceJson, ObjectText, Fence>>],
    [raises |-> FALSE, text |-> <<FenceJson, ArrayText, Fence>>] }

\* The model calls rank_candidates made and what each returned.
RankPass(r) ==
  LET report == [extracted |-> FALSE, called |-> TRUE, failed |-> r.report = "raise",
                 reply |-> r.report, text |-> <<>>]
      json   == [extracted |-> FALSE, called |-> TRUE, failed |-> r.json.raises,
                 reply |-> IF r.json.raises THEN "raise" ELSE "ok", text |-> r.json.text]
  IN  IF r.report = "raise" THEN <<report>> ELSE <<report, json>>

RankCandidatesOn(json_replies) ==
  /\ pc = "FinalRanker"
  /\ \E r \in RankReplies(json_replies) :
       LET update == rank_candidates(candidates, r.report, r.json) IN
       /\ messages' = messages \o update.messages
       /\ final_ranking' = update.final_ranking
       /\ trace' = RankPass(r)
  /\ \E node \in Targets(pc, next) : pc' = Due(node)
  /\ UNCHANGED <<job_offer, candidates, resume_analyses, linkedin_analyses,
                 cover_letter_analyses, job_matches, next, result, llm_available>>

RankCandidates == RankCandidatesOn(RunJsonReplies)

Next ==
  \/ SupervisorRoutes
  \/ SupervisorRaises
  \/ AnalyzeResume
  \/ AnalyzeLinkedIn
  \/ AnalyzeCoverLetter
  \/ MatchCandidates
  \/ RankCandidates

Spec == Init /\ [][Next]_vars

(***************************************************************************)
(* The step functions on their own: the router has answered its first     *)
(* call with the name of a step (it may name any of them) and the graph    *)
(* is about to run that step on the initial state, for every candidate     *)
(* list of the pool and every reply of the environment.                    *)
(***************************************************************************)
StepInit ==
  /\ \E cands \in Lists(CandidatePool, MaxCand), first \in Members :
       /\ initial_state(cands, first) /\ pc = first
  /\ result = EmptyDict
  /\ llm_available \in BOOLEAN
  /\ trace = <<>>

RankCandidatesAnyReply == RankCandidatesOn(JsonReplies)

StepNext ==
  \/ AnalyzeResume
  \/ AnalyzeLinkedIn
  \/ AnalyzeCoverLetter
  \/ MatchCandidates
  \/ RankCandidatesAnyReply

StepSpec == StepInit /\ [][StepNext]_vars

(***************************************************************************)
(* The merge of a step's update on its own: graph.py line 67 exports the   *)
(* compiled graph, and graph.invoke accepts any CandidateState. Here the   *)
(* state handed to it already has entries in its analysis maps, and the    *)
(* router has named a step.                                                *)
(***************************************************************************)
\* An analysis map before the run: empty, or with an entry of earlier work.
PriorMaps == {EmptyDict, [earlier |-> "earlier analysis"]}

MergeInit ==
  /\ messages = <<"user">>
  /\ job_offer = "Senior Python Developer"
  /\ candidates \in Lists(RunPool, MaxRunCand)
  /\ resume_analyses \in PriorMaps
  /\ linkedin_analyses \in PriorMaps
  /\ cover_letter_analyses \in PriorMaps
  /\ job_matches \in PriorMaps
  /\ final_ranking = EmptyDict
  /\ next \in Members
  /\ pc = next
  /\ result = EmptyDict
  /\ llm_available \in BOOLEAN
  /\ trace = <<>>

MergeNext ==
  \/ AnalyzeResume
  \/ AnalyzeLinkedIn
  \/ AnalyzeCoverLetter
  \/ MatchCandidates
  \/ RankCandidates

MergeSpec == MergeInit /\ [][MergeNext]_vars

(***************************************************************************)
(* Properties                                                              *)
(***************************************************************************)
\* The first step, in the order of members, whose marker is not in done;
\* FINISH when every marker is.
FirstAbsent(done) ==
  IF \E i \in 1..Len(members) : members[i] \notin done
    THEN members[CHOOSE i \in 1..Len(members) :
                   /\ members[i] \notin done
                   /\ \A j \in 1..(i - 1) : members[j] \in done]
  ELSE "FINISH"

\* The router has answered and its answer is in next.
Decided == pc \in Members \cup {"returned"}

\* C1: whenever the router has decided, its decision is the first step, in
\* the fixed order, whose completion marker is absent from the messages
\* (ResumeAnalyzer at the start, FINISH when none is absent).
C1_RoutesToFirstAbsentStep == Decided => next = FirstAbsent(Markers(messages))

\* The decisions of the run so far, each with the marker set it was taken
\* on: every step that ran was named by the router on the messages before
\* its own, and the decision not yet carried out is in next.
DecisionsTaken ==
  {<<Markers(SubSeq(messages, 1, i - 1)), messages[i]>> : i \in 2..Len(messages)}
  \cup (IF Decided THEN {<<Markers(messages), next>>} ELSE {})

\* C2: router determinism: any two decisions of the router taken on the same
\* set of completion markers are the same decision.
C2_RouterDeterminism ==
  \A d, e \in DecisionsTaken : d[1] = e[1] => d[2] = e[2]

\* C3: no step runs more than once in a run: no marker occurs twice in the
\* messages, and the step the graph is about to run has no marker yet.
C3_NoStepRunsTwice ==
  /\ \A m \in Members : Cardinality({i \in 1..Len(messages) : messages[i] = m}) <= 1
  /\ pc \in Members => pc \notin Markers(messages)

\* C4: every run ends by returning a result: a run that has not returned can
\* still take a step (runs are finite, so it then goes on to return), and
\* no failure ends it.
C4_RunEndsReturning == pc = "returned" \/ ENABLED Next

\* C5: once all five completion markers are present, a call of the router
\* ends in the decision FINISH and the run returns.
C5_TerminalDecisionIsFinish ==
  (Markers(messages) = Members /\ pc # "supervisor")
    => (pc = "returned" /\ next = "FINISH")

\* p in s
RECURSIVE ContainsFrom(_, _, _)
ContainsFrom(s, p, i) ==
  IF i + Len(p) - 1 > Len(s) THEN FALSE
  ELSE IF SubSeq(s, i, i + Len(p) - 1) = p THEN TRUE
  ELSE ContainsFrom(s, p, i + 1)

Contains(s, p) == ContainsFrom(s, p, 1)

AnalysisMaps == {"resume_analyses", "linkedin_analyses", "cover_letter_analyses", "job_matches"}

\* C6: when the run has finished, each of the four analysis maps of the
\* result has exactly one entry per candidate.
C6_EveryMapHasEveryCandidate ==
  pc = "returned" =>
    \A m \in AnalysisMaps :
      /\ Cardinality(DOMAIN result.all_analyses[m]) = Len(candidates)
      /\ \A i \in 1..Len(candidates) :
           CandidateId(candidates, i) \in DOMAIN result.all_analyses[m]

\* C7: when the model client raises on every call, no exception reaches the
\* caller, and the result returned has, in every analysis map, an entry per
\* candidate that is an error string containing the cause.
C7_ModelDownStillReturns ==
  ~llm_available =>
    /\ pc # "raised"
    /\ pc = "returned" =>
         \A m \in AnalysisMaps : \A i \in 1..Len(candidates) :
           /\ CandidateId(candidates, i) \in DOMAIN result.all_analyses[m]
           /\ StartsWith(result.all_analyses[m][CandidateId(candidates, i)], "Error")
           /\ Contains(result.all_analyses[m][CandidateId(candidates, i)], LLMFailure)

AnalysisSteps == {"ResumeAnalyzer", "LinkedInAnalyzer", "CoverLetterAnalyzer", "JobMatcher"}

\* The field of the state an analysis step writes.
MapOf(step) ==
  CASE step = "ResumeAnalyzer" -> resume_analyses
    [] step = "LinkedInAnalyzer" -> linkedin_analyses
    [] step = "CoverLetterAnalyzer" -> cover_letter_analyses
    [] step = "JobMatcher" -> job_matches

\* The step the router named last has run and the graph is back at the router.
JustRan(step) == pc = "supervisor" /\ next = step

\* The texts the steps store for a failure.
FailureText(entry) == StartsWith(entry, "Error") \/ entry = "Cover letter file not found"

\* No later candidate of the list has the id of candidate i.
Latest(i) ==
  \A j \in (i + 1)..Len(candidates) :
    CandidateId(candidates, j) # CandidateId(candidates, i)

\* C8: when one of the four per-candidate steps has run, its completion
\* marker is the last message, every candidate of the list was processed
\* and has an entry in the step's map, and the entry of a candidate whose
\* extraction or model call failed is a text describing the failure.
C8_FailureIsRecordedAndLoopGoesOn ==
  \A step \in AnalysisSteps :
    JustRan(step) =>
      /\ messages[Len(messages)] = step
      /\ Len(trace) = Len(candidates)
      /\ \A i \in 1..Len(candidates) :
           /\ CandidateId(candidates, i) \in DOMAIN MapOf(step)
           /\ (trace[i].failed /\ Latest(i))
                => FailureText(MapOf(step)[CandidateId(candidates, i)])

\* A step has run on two candidates: the first failed, the second was
\* analysed all the same.
C8_Witness ==
  \E step \in AnalysisSteps :
    /\ JustRan(step)
    /\ Len(candidates) = 2
    /\ Latest(1)
    /\ trace[1].failed
    /\ ~trace[2].failed /\ trace[2].called
    /\ FailureText(MapOf(step)[CandidateId(candidates, 1)])
    /\ MapOf(step)[CandidateId(candidates, 2)] \in {AnalysisText, AIMessage(AnalysisText)}

\* The final ranker has run, both model calls returned, and the text of the
\* second is not JSON once the fences are stripped.
UnparsableReply ==
  /\ JustRan("FinalRanker")
  /\ Len(trace) = 2
  /\ ~trace[2].failed
  /\ json_loads(StripFences(str_reply(trace[2].text))).error

\* C9: when the structured-ranking reply cannot be parsed as JSON after the
\* fences are stripped, structured_output is the fallback: one entry per
\* candidate in input order with rank = position + 1, score 0,
\* recommendation "Unable to parse", no strengths and no weaknesses, and
\* top_recommendation the id of the first candidate.
C9_FallbackOnUnparsableReply ==
  UnparsableReply =>
    LET so == final_ranking.structured_output IN
    /\ DOMAIN so = {"rankings", "top_recommendation", "summary"}
    /\ Len(so.rankings) = Len(candidates)
    /\ \A i \in 1..Len(candidates) :
         so.rankings[i] = [candidate_id |-> CandidateId(candidates, i),
                           rank |-> i,
                           score |-> 0,
                           recommendation |-> "Unable to parse",
                           key_strengths |-> <<>>,
                           key_weaknesses |-> <<>>]
    /\ candidates # <<>> => so.top_recommendation = CandidateId(candidates, 1)

\* The reply held a fenced block that is not JSON, for two candidates.
C9_Witness ==
  /\ UnparsableReply
  /\ Len(candidates) = 2
  /\ FirstOf(trace[2].text, {FenceJson, Fence}, 1) # 0
  /\ final_ranking.structured_output.rankings[2].rank = 2

RankingShape == {"rankings", "top_recommendation", "summary"}

\* The JSON objects a reply of the model can hold.
JsonObjects ==
  {json_loads(<<t>>).value : t \in {u \in Tokens : json_loads(<<u>>).type = "dict"}}

Absent(i, key) == Falsy(Get(candidates[i], key, None))

\* C11: when the cover letter step has run, every candidate without a
\* cover_letter_path has the not-provided text as its entry, never a
\* failure text; neither the extractor nor the model was called for it, and
\* the step returned its update with its marker, the graph going on to the
\* router.
C11_AbsentCoverLetterIsNeutral ==
  JustRan("CoverLetterAnalyzer") =>
    /\ messages[Len(messages)] = "CoverLetterAnalyzer"
    /\ Len(trace) = Len(candidates)
    /\ \A i \in 1..Len(candidates) :
         Absent(i, "cover_letter_path") =>
           /\ ~trace[i].extracted /\ ~trace[i].called /\ ~trace[i].failed
           /\ CandidateId(candidates, i) \in DOMAIN cover_letter_analyses
           /\ Latest(i) =>
                /\ cover_letter_analyses[CandidateId(candidates, i)]
                     = "No cover letter provided (optional)"
                /\ ~FailureText(cover_letter_analyses[CandidateId(candidates, i)])

\* The step ran on two candidates: the first has no cover letter, the
\* second has one that was analysed.
C11_Witness ==
  /\ JustRan("CoverLetterAnalyzer")
  /\ Len(candidates) = 2
  /\ Absent(1, "cover_letter_path") /\ Latest(1)
  /\ cover_letter_analyses[CandidateId(candidates, 1)] = "No cover letter provided (optional)"
  /\ trace[2].called
  /\ cover_letter_analyses[CandidateId(candidates, 2)] = AIMessage(AnalysisText)

\* Why candidate i has no resume text: no path, a path that names no file,
\* a file that cannot be read; "none" when the resume can be read.
ResumeCause(i) ==
  LET resume_path == Get(candidates[i], "resume_path", None) IN
  IF Falsy(resume_path) THEN "absent"
  ELSE IF resume_path \notin DOMAIN FileSystem THEN "missing"
  ELSE IF ~FileSystem[resume_path].readable THEN "unreadable"
  ELSE "none"

\* C12: when the resume step has run, a candidate without a resume path and
\* a candidate whose path names no file each have a text recorded; the
\* texts of two candidates whose resumes are unavailable for different
\* causes (absent, file not found, extraction failure) differ; every
\* candidate was processed and the step returned its update and marker.
C12_ResumeSentinelPerCause ==
  JustRan("ResumeAnalyzer") =>
    /\ messages[Len(messages)] = "ResumeAnalyzer"
    /\ Len(trace) = Len(candidates)
    /\ \A i \in 1..Len(candidates) :
         /\ CandidateId(candidates, i) \in DOMAIN resume_analyses
         /\ (Latest(i) /\ ResumeCause(i) = "absent")
              => resume_analyses[CandidateId(candidates, i)] = "No resume provided"
         /\ (Latest(i) /\ ResumeCause(i) = "missing")
              => Contains(resume_analyses[CandidateId(candidates, i)], "file not found")
         /\ (Latest(i) /\ ResumeCause(i) = "unreadable")
              => ~Contains(resume_analyses[CandidateId(candidates, i)], "file not found")
    /\ \A i, j \in 1..Len(candidates) :
         (/\ Latest(i) /\ Latest(j)
          /\ ResumeCause(i) # "none" /\ ResumeCause(j) # "none"
          /\ ResumeCause(i) # ResumeCause(j))
           => resume_analyses[CandidateId(candidates, i)]
                # resume_analyses[CandidateId(candidates, j)]

\* The step ran on a candidate without a resume path followed by one whose
\* path names no file, and each has its own text.
C12_Witness ==
  /\ JustRan("ResumeAnalyzer")
  /\ Len(candidates) = 2
  /\ Latest(1)
  /\ ResumeCause(1) = "absent" /\ ResumeCause(2) = "missing"
  /\ resume_analyses[CandidateId(candidates, 1)] = "No resume provided"
  /\ StartsWith(resume_analyses[CandidateId(candidates, 2)], "Error analyzing resume: PDF file not found")

\* C13: a run with zero candidates that returns (that it returns at all is
\* C4) has four empty analysis maps in its result and a structured output
\* whose top_recommendation is absent or null.
C13_NoCandidatesNoRecommendation ==
  (candidates = <<>> /\ pc = "returned") =>
    /\ \A m \in AnalysisMaps : result.all_analyses[m] = EmptyDict
    /\ \/ "top_recommendation" \notin DOMAIN result.structured_output
       \/ result.structured_output.top_recommendation = None

\* Candidate i supplies a resume and nothing else.
ResumeOnly(i) ==
  /\ ~Absent(i, "resume_path")
  /\ Absent(i, "linkedin_url")
  /\ Absent(i, "cover_letter_path")

\* The run returned after each of the five steps had run.
Completed == pc = "returned" /\ Markers(messages) = Members

\* C14: in the result of a completed run, the LinkedIn and cover letter
\* entries of every candidate that supplied a resume only are the two
\* not-provided texts, and the structured output has exactly one ranking
\* entry per candidate.
C14_ResumeOnlyCandidateIsRanked ==
  Completed =>
    /\ \A i \in 1..Len(candidates) :
         (ResumeOnly(i) /\ Latest(i)) =>
           /\ CandidateId(candidates, i) \in DOMAIN result.all_analyses.linkedin_analyses
           /\ result.all_analyses.linkedin_analyses[CandidateId(candidates, i)]
                = "No LinkedIn profile provided"
           /\ CandidateId(candidates, i) \in DOMAIN result.all_analyses.cover_letter_analyses
           /\ result.all_analyses.cover_letter_analyses[CandidateId(candidates, i)]
                = "No cover letter provided (optional)"
    /\ "rankings" \in DOMAIN result.structured_output
    /\ Len(result.structured_output.rankings) = Len(candidates)

\* The ids the steps store entries under.
CandidateIds == {CandidateId(candidates, i) : i \in 1..Len(candidates)}

\* old is merged entry-wise into new: no key of old is lost, and the entry
\* of a key that is no candidate's is kept as it was.
MergedInto(old, new) ==
  \A k \in DOMAIN old :
    /\ k \in DOMAIN new
    /\ k \notin CandidateIds => new[k] = old[k]

C16_OneNodeAtATime ==
  /\ pc \in Members => (next = pc /\ Targets(pc, next) = {"supervisor"})
  /\ pc = "supervisor" =>
       \A o \in RouteResponse : Cardinality(Targets("supervisor", o)) = 1

\* Two steps have run, each after a decision of the supervisor, and the
\* supervisor is due again.
C16_Witness ==
  /\ pc = "supervisor"
  /\ Len(messages) = 3
  /\ messages[2] # messages[3]
  /\ next = messages[3]

PathKey(step) ==
  IF step = "ResumeAnalyzer" THEN "resume_path" ELSE "cover_letter_path"

\* extract_text raised for a page of the file.
SomePageFailed(file_path) ==
  /\ file_path \in DOMAIN FileSystem
  /\ \E p \in 1..Len(FileSystem[file_path].pages) :
       FileSystem[file_path].pages[p] = PageFails

\* C18: parse_pdf returns text only when every page was extracted without
\* error: when the resume or the cover letter step has run, a candidate
\* whose file parse_pdf returned text for has no page that failed.
C18_NoPartialText ==
  \A step \in {"ResumeAnalyzer", "CoverLetterAnalyzer"} :
    JustRan(step) =>
      \A i \in 1..Len(candidates) :
        (trace[i].extracted /\ trace[i].text # None)
          => ~SomePageFailed(candidates[i][PathKey(step)])

\* The key of the candidate dict that holds the input of a step.
InputKey(step) ==
  CASE step = "ResumeAnalyzer" -> "resume_path"
    [] step = "LinkedInAnalyzer" -> "linkedin_url"
    [] step = "CoverLetterAnalyzer" -> "cover_letter_path"

\* C19: when the resume, the LinkedIn or the cover letter step has run, a
\* candidate whose input is absent, or for whom the extractor returned
\* empty content, has a sentinel string as its entry and the model was not
\* called for it.
C19_NoModelCallWithoutContent ==
  \A step \in {"ResumeAnalyzer", "LinkedInAnalyzer", "CoverLetterAnalyzer"} :
    JustRan(step) =>
      \A i \in 1..Len(candidates) :
        (Absent(i, InputKey(step)) \/ (trace[i].extracted /\ trace[i].text = ""))
          => /\ ~trace[i].called
             /\ Latest(i) =>
                  /\ CandidateId(candidates, i) \in DOMAIN MapOf(step)
                  /\ MapOf(step)[CandidateId(candidates, i)]
                       \notin {AIMessage(AnalysisText), AnalysisText}

\* C20: a step's update holds its own result field and its own message and
\* nothing else: the step that has just appended its message left job_offer,
\* candidates, next, every other step's map and (unless it is the final
\* ranker) final_ranking as they were.
C20_StepWritesOwnFieldOnly ==
  [][messages' # messages =>
       LET step == messages'[Len(messages')] IN
       /\ job_offer' = job_offer
       /\ candidates' = candidates
       /\ next' = next
       /\ step # "FinalRanker" => final_ranking' = final_ranking
       /\ step # "ResumeAnalyzer" => resume_analyses' = resume_analyses
       /\ step # "LinkedInAnalyzer" => linkedin_analyses' = linkedin_analyses
       /\ step # "CoverLetterAnalyzer" => cover_letter_analyses' = cover_letter_analyses
       /\ step # "JobMatcher" => job_matches' = job_matches]_vars

\* The LinkedIn step has run after the final ranker and the resume step,
\* whose results are still in the state.
C20_Witness ==
  /\ pc = "supervisor"
  /\ messages = <<"user", "FinalRanker", "ResumeAnalyzer", "LinkedInAnalyzer">>
  /\ candidates # <<>>
  /\ final_ranking # EmptyDict
  /\ resume_analyses # EmptyDict
  /\ linkedin_analyses # EmptyDict

\* C21: in every state of a run, for every analysis step and candidate, the
\* step's map has an entry under the candidate's id if and only if the
\* step's completion marker is among the messages (the step's loop reaches
\* every candidate); a failure is an entry, never a missing key, and the map
\* holds no other key.
C21_EntryIffStepRan ==
  \A step \in AnalysisSteps :
    /\ \A i \in 1..Len(candidates) :
         CandidateId(candidates, i) \in DOMAIN MapOf(step)
           <=> step \in Markers(messages)
    /\ DOMAIN MapOf(step) \subseteq CandidateIds

\* The resume step has run and recorded a failure for the candidate, whose
\* id is not yet in the map of the job matcher, which has not run.
C21_Witness ==
  /\ pc = "supervisor"
  /\ candidates # <<>>
  /\ "ResumeAnalyzer" \in Markers(messages)
  /\ "JobMatcher" \notin Markers(messages)
  /\ FailureText(resume_analyses[CandidateId(candidates, 1)])
  /\ CandidateId(candidates, 1) \notin DOMAIN job_matches

\* The positions of the messages at which the marker of step stands.
Positions(step) == {i \in 1..Len(messages) : messages[i] = step}

\* C22: the final ranking is written exactly once in a run, by the final
\* ranker, and only after the resume, LinkedIn, cover letter and job match
\* steps have all completed: the marker of the final ranker occurs at most
\* once, each of the four other markers stands before it, the ranking is
\* empty until then, and the final ranker is due only when the four maps
\* have been written.
C22_RankingWrittenOnceAfterAll ==
  /\ Cardinality(Positions("FinalRanker")) <= 1
  /\ final_ranking # EmptyDict => "FinalRanker" \in Markers(messages)
  /\ \A k \in Positions("FinalRanker") :
       \A step \in AnalysisSteps : \E j \in Positions(step) : j < k
  /\ pc = "FinalRanker" => AnalysisSteps \subseteq Markers(messages)

\* C23: rank_candidates never raises. Whenever the final ranker is due it
\* can complete, and when it has run, whether its model calls returned,
\* raised or returned text that is not JSON, its marker is the last message
\* and final_ranking has the two fields detailed_report and
\* structured_output: the error form when a call raised, the fallback when
\* the reply could not be parsed.
C23_RankCandidatesNeverRaises ==
  /\ pc = "FinalRanker" => ENABLED RankCandidatesAnyReply
  /\ JustRan("FinalRanker") =>
       /\ messages[Len(messages)] = "FinalRanker"
       /\ DOMAIN final_ranking = {"detailed_report", "structured_output"}
       /\ trace[Len(trace)].failed =>
            /\ StartsWith(final_ranking.detailed_report, "Error generating ranking")
            /\ DOMAIN final_ranking.structured_output = {"error"}
       /\ UnparsableReply => final_ranking.structured_output = Fallback(candidates)

\* The final ranker ran on two candidates, its second model call raised, and
\* it returned the error form.
C23_Witness ==
  /\ JustRan("FinalRanker")
  /\ Len(candidates) = 2
  /\ Len(trace) = 2 /\ trace[2].failed
  /\ final_ranking.structured_output = [error |-> LLMFailure]
  /\ messages = <<"user", "FinalRanker">>

\* C24: the message history is append-only: no step of a run removes or
\* changes a message, the execution of a step node appends exactly one
\* message, named after that step, and the supervisor appends none; so the
\* set of completion markers only grows.
C24_MessagesAppendOnly ==
  [][/\ Len(messages') >= Len(messages)
     /\ SubSeq(messages', 1, Len(messages)) = messages
     /\ Markers(messages) \subseteq Markers(messages')
     /\ pc \in Members => messages' = Append(messages, pc)
     /\ pc = "supervisor" => messages' = messages]_vars

\* Two steps have each appended their message, the job matcher last, and
\* the supervisor has decided once more without appending one.
C24_Witness ==
  /\ pc \in Members
  /\ Len(messages) = 3
  /\ messages[1] = "user"
  /\ messages[2] \in Members
  /\ messages[3] = "JobMatcher"

\* The last candidate of the list with the resolved id of candidate i.
LastWithId(i) ==
  CHOOSE j \in i..Len(candidates) :
    /\ CandidateId(candidates, j) = CandidateId(candidates, i)
    /\ Latest(j)

\* C25: when an analysis step has run, its map has as many entries as the
\* candidates have distinct resolved ids (the id field, or candidate_<index>
\* when there is none), and the entry under a candidate's id is the result
\* of the last candidate of the list that resolves to that id.
C25_OneEntryPerResolvedId ==
  \A step \in AnalysisSteps :
    JustRan(step) =>
      /\ Cardinality(DOMAIN MapOf(step)) = Cardinality(CandidateIds)
      /\ \A i \in 1..Len(candidates) :
           /\ CandidateId(candidates, i) =
                IF "id" \in DOMAIN candidates[i] THEN candidates[i].id
                ELSE "candidate_" \o ToString(i - 1)
           /\ MapOf(step)[CandidateId(candidates, i)] = trace[LastWithId(i)].entry

\* A step ran on a candidate whose id is candidate_1 followed by one without
\* an id: the two share one entry, the result of the second, which is not
\* the result of the first.
C25_Witness ==
  \E step \in AnalysisSteps :
    /\ JustRan(step)
    /\ Len(candidates) = 2
    /\ "id" \in DOMAIN candidates[1] /\ candidates[1].id = "candidate_1"
    /\ "id" \notin DOMAIN candidates[2]
    /\ Cardinality(DOMAIN MapOf(step)) = 1
    /\ trace[1].entry # trace[2].entry
    /\ MapOf(step)["candidate_1"] = trace[2].entry

\* The scraper returned text for candidate i that is not empty and does not
\* begin with Error.
UsableProfileText(i) ==
  /\ trace[i].extracted
  /\ trace[i].text # ""
  /\ ~StartsWith(trace[i].text, "Error")

\* C26: when the LinkedIn step has run, the model was invoked for a
\* candidate if and only if its linkedin_url is not empty and the text
\* scrape_linkedin returned is not empty and does not begin with Error. For
\* every other candidate the entry is the not-provided text, the no-content
\* text, or the returned text itself: profile text that begins with Error is
\* recorded as it is.
C26_ModelCalledOnUsableProfileOnly ==
  JustRan("LinkedInAnalyzer") =>
    \A i \in 1..Len(candidates) :
      /\ trace[i].called <=> (~Absent(i, "linkedin_url") /\ UsableProfileText(i))
      /\ trace[i].extracted <=> ~Absent(i, "linkedin_url")
      /\ ~trace[i].called =>
           trace[i].entry =
             IF Absent(i, "linkedin_url") THEN "No LinkedIn profile provided"
             ELSE IF trace[i].text = "" THEN "No content available"
             ELSE trace[i].text
      /\ Latest(i) => linkedin_analyses[CandidateId(candidates, i)] = trace[i].entry

\* The step ran on a candidate whose profile is given as text that begins
\* with Error: the text is the entry and the model was not called, although
\* it was for the other candidate.
C26_Witness ==
  /\ JustRan("LinkedInAnalyzer")
  /\ Len(candidates) = 2
  /\ Latest(1)
  /\ ~Absent(1, "linkedin_url")
  /\ ~is_url(candidates[1].linkedin_url)
  /\ StartsWith(candidates[1].linkedin_url, "Error")
  /\ ~trace[1].called /\ ~trace[1].failed
  /\ linkedin_analyses[CandidateId(candidates, 1)] = candidates[1].linkedin_url
  /\ trace[2].called

\* The final ranker has run, both model calls returned, and the text of the
\* second, once the fences are stripped, is JSON whose value is not an
\* object.
NonObjectReply ==
  /\ JustRan("FinalRanker")
  /\ Len(trace) = 2
  /\ ~trace[2].failed
  /\ ~json_loads(StripFences(str_reply(trace[2].text))).error
  /\ json_loads(StripFences(str_reply(trace[2].text))).type # "dict"

\* C27: when the structured-ranking reply parses as JSON that is not an
\* object, the final ranking is the error form: a detailed_report that
\* begins with Error generating ranking, the report already generated being
\* dropped, and a structured_output whose only field is error; it is neither
\* the parsed value nor the fallback.
C27_NonObjectJsonIsAnError ==
  NonObjectReply =>
    /\ messages[Len(messages)] = "FinalRanker"
    /\ DOMAIN final_ranking = {"detailed_report", "structured_output"}
    /\ StartsWith(final_ranking.detailed_report, "Error generating ranking")
    /\ final_ranking.detailed_report # str_message(ReportText)
    /\ DOMAIN final_ranking.structured_output = {"error"}
    /\ final_ranking.structured_output # Fallback(candidates)

\* The reply was a fenced array, for two candidates.
C27_Witness ==
  /\ NonObjectReply
  /\ Len(candidates) = 2
  /\ trace[2].text = <<FenceJson, Space, ArrayText, Space, Fence>>
  /\ DOMAIN final_ranking.structured_output = {"error"}

\* C28: when the router decides FINISH the run returns, even though steps
\* were skipped; if the final ranker has not run, the result has the report
\* "No report generated", the empty object as structured_output, and in
\* all_analyses the maps of the state: those the executed steps produced,
\* and empty maps for the steps that never ran.
C28_FinishBeforeRankingReturnsDefaults ==
  /\ next = "FINISH" => pc = "returned"
  /\ (pc = "returned" /\ "FinalRanker" \notin Markers(messages)) =>
       /\ next = "FINISH"
       /\ result.detailed_report = "No report generated"
       /\ result.structured_output = EmptyDict
       /\ result.all_analyses = [resume_analyses |-> resume_analyses,
                                 linkedin_analyses |-> linkedin_analyses,
                                 cover_letter_analyses |-> cover_letter_analyses,
                                 job_matches |-> job_matches]
       /\ \A step \in AnalysisSteps \ Markers(messages) : MapOf(step) = EmptyDict

\* The router decided FINISH after the resume step alone had run: the
\* result holds that step's map and three empty ones.
C28_Witness ==
  /\ pc = "returned"
  /\ Markers(messages) = {"ResumeAnalyzer"}
  /\ candidates # <<>>
  /\ result.detailed_report = "No report generated"
  /\ result.all_analyses.resume_analyses # EmptyDict
  /\ result.all_analyses.job_matches = EmptyDict

=============================================================================
